---- MODULE Spec2Model ----
(***************************************************************************)
(* A model of the cine2 simulation driver (src/cine/simulation.cpp) and of *)
(* the feed-forward network engine it uses (src/cine/ann.hpp).             *)
(*                                                                         *)
(* Three specifications share the module:                                  *)
(*   Spec     one call of Simulation::simulate_timestep, started from a    *)
(*            state a generation can be in at the start of a timestep;     *)
(*   SpecGen  one call of detail::create_new_generation;                   *)
(*   SpecRun  Simulation::run, the generation loop and its observer.       *)
(* Random draws (bernoulli, uniform, shuffle, the networks' decisions) are *)
(* nondeterministic choices over the values the draw can return.           *)
(***************************************************************************)
EXTENDS Integers, Sequences, FiniteSets

\* ------------------------------------------------------------------ bounds
\* population size param.agents.N
NAgents == 3
\* landscape side landscape_.dim()
Dim == 4
\* the capacity layer holds the values 0/CapDen .. CapDen/CapDen
CapDen == 4
\* most agents that are free to move in the timestep
MaxMovers == 2
\* most agents of positive weight in the selection distribution
MaxParents == 2
\* largest param_.Gburnin, param_.G (and Gfix), param_.T (and Tfix)
MaxGburnin == 1
MaxG == 2
MaxT == 2

\* ------------------------------------------------------- program parameters
\* param_.landscape.max_item_cap
max_item_cap == 3
\* param_.agents.flee_radius
flee_radius == 1
\* param.agents.L, the range an agent perceives and moves in
MoveRadius == 1
\* half-width of the occupancy kernel param_.landscape.foragers_kernel
KernelRadius == 1
\* timesteps an item is handled
HandlingTime == 2
\* iparam.sprout_radius
sprout_radius == 1
\* Neuron::input_size of the network the agents carry
input_size == 2
\* float prob_to_fight = 1.0f
prob_to_fight == 1
\* std::bernoulli_distribution initiator_wins(1.0)
initiator_wins == 1

Agents == 1..NAgents
Coord == 0..(Dim - 1)
Cells == Coord \X Coord
\* the cell the bounded initial states are built around
StartCell == <<1, 1>>
InitCells == {StartCell, <<2, 1>>}
\* what a read of attacked_inds beyond its size can yield besides an agent
BadPtr == 0

VARIABLES
  \* ---- Simulation state used by simulate_timestep
  pos, foraging, handling, handle_time,   \* agents_.pop[i] fields
  items, capacity,                        \* landscape layers
  foragers_count, klepts_count, handlers_count, handlers,
  attacking_inds_, attacked_inds, conflicts_v,
  pc, idx,
  \* ---- history of the current timestep
  grew, itemsAtForage, picks, lastPick, selected, resolved, lastFight

stepVars == <<pos, foraging, handling, handle_time, items, capacity,
              foragers_count, klepts_count, handlers_count, handlers,
              attacking_inds_, attacked_inds, conflicts_v, pc, idx,
              grew, itemsAtForage, picks, lastPick, selected, resolved, lastFight>>

\* ---- Population state used by detail::create_new_generation
VARIABLES
  ancestor,          \* agents_.pop[i].ancestor
  ann, tmp_ann,      \* *population.ann, *population.tmp_ann: one state array per slot
  tmp_pop,           \* population.tmp_pop
  fitness,           \* agents_.fitness
  rdist,             \* population.rdist: the agents of positive weight
  reng,              \* rnd::reng: the slots in the order their iterations drew from it
  gphase, written    \* position in create_new_generation; slots whose iteration ran

genVars == <<ancestor, ann, tmp_ann, tmp_pop, fitness, rdist, reng, gphase, written>>

\* ---- Simulation::run
VARIABLES
  observer,                      \* "null", or how the observer answers
  Gburnin, G, T, Tfix, Gfix,     \* param_
  rpc, phase, gb, tb, g_, t_,    \* position in run and its counters
  rdistFresh,                    \* rdist was rebuilt from the fitness of the live population
  trace,                         \* what has happened so far, in order
  vetoed                         \* observer->notify has returned false

runVars == <<observer, Gburnin, G, T, Tfix, Gfix, rpc, phase, gb, tb, g_, t_,
             rdistFresh, trace, vetoed>>

\* ---- Simulation::Simulation
VARIABLES
  cpc,               \* position in the constructor, "constructed" or "failed"
  dim,               \* landscape_.dim()
  image,             \* Image image(...): its width and height
  archive            \* param_.init_agents_ann and the cm that ia.extract returns

ctorVars == <<cpc, dim, image, archive>>

\* ---- ann::Network
VARIABLES
  layers,            \* the type Network<T, L...>: the layers L... in order
  npc,               \* "type", "rejected" by the static_assert, or "accepted"
  state_,            \* Network::state_, indexed from 0
  net_in, net_out,   \* the input of operator() and what it last returned
  feeds,             \* evaluations made
  prev_state,        \* state_ as it was when the last evaluation began
  prev_out,          \* what the evaluation before the last returned
  fed_at             \* per layer, the offsets Layer::feed handed to Neuron::feed

netVars == <<layers, npc, state_, net_in, net_out, feeds, prev_state, prev_out, fed_at>>

vars == <<stepVars, genVars, runVars, ctorVars, netVars>>

\* ------------------------------------------------------------------ helpers
Min(a, b) == IF a <= b THEN a ELSE b
Max(a, b) == IF a >= b THEN a ELSE b

\* outcomes of std::bernoulli_distribution(p) for p = 0, p = 1 and 0 < p < 1
BernoulliOutcomes(p, one) ==
  IF p <= 0 THEN {FALSE} ELSE IF p >= one THEN {TRUE} ELSE BOOLEAN

\* Coordinate arithmetic and Landscape::wrap (toroidal)
Offsets(r) == ((0 - r)..r) \X ((0 - r)..r)
Add(c, d) == <<c[1] + d[1], c[2] + d[2]>>
wrap(c) == <<c[1] % Dim, c[2] % Dim>>
AxisDist(a, b) ==
  LET d == IF a >= b THEN a - b ELSE b - a
  IN  Min(d, Dim - d)
TorDist(p, q) == Max(AxisDist(p[1], q[1]), AxisDist(p[2], q[2]))

\* floor(capacity[i] * max_item_cap)
ItemCap(c) == (capacity[c] * max_item_cap) \div CapDen

\* ------------------------------------------------------------ Individual
\* Individual::handle()
handle(a) == handling[a]

\* ------------------------------------------------------------- Landscape
\* Landscape::update_occupancy: raw counts per role, then the kernel
ZeroLayer == [c \in Cells |-> 0]
IsHandler(a) == handling[a]
IsForager(a) == ~handling[a] /\ foraging[a]
IsKlept(a) == ~handling[a] /\ ~foraging[a]
RoleOf(a) == IF IsHandler(a) THEN "handlers" ELSE IF IsForager(a) THEN "foragers" ELSE "klepts"
RECURSIVE CountUpTo(_, _)
CountUpTo(role, n) ==
  IF n = 0 THEN ZeroLayer
  ELSE LET f == CountUpTo(role, n - 1)
       IN  IF RoleOf(n) = role THEN [f EXCEPT ![pos[n]] = @ + 1] ELSE f
RoleCount(role) == CountUpTo(role, NAgents)
KernelWidth == 2 * KernelRadius + 1
KernelOffset(k) == <<((k - 1) \div KernelWidth) - KernelRadius,
                     ((k - 1) % KernelWidth) - KernelRadius>>
KernelCells == [c \in Cells |->
                  [k \in 1..(KernelWidth * KernelWidth) |-> wrap(Add(c, KernelOffset(k)))]]
RECURSIVE KernelSum(_, _, _)
KernelSum(cnt, c, k) ==
  IF k = 0 THEN 0 ELSE cnt[KernelCells[c][k]] + KernelSum(cnt, c, k - 1)
Convolve(cnt) == [c \in Cells |-> KernelSum(cnt, c, KernelWidth * KernelWidth)]

update_occupancy ==
  /\ foragers_count' = RoleCount("foragers")
  /\ klepts_count' = RoleCount("klepts")
  /\ handlers_count' = RoleCount("handlers")
  /\ handlers' = Convolve(handlers_count')

Occupancy == <<foragers_count, klepts_count, handlers_count, handlers>>
Lists == <<attacking_inds_, attacked_inds, conflicts_v>>
History == <<grew, itemsAtForage, picks, lastPick, selected, resolved, lastFight>>

\* ------------------------------------------------------------------- Init
NoPicks == [c \in Cells |-> 0]
\* 0: the attacker selected nobody
NoSelection == [a \in Agents |-> 0]

\* the capacity layer read from the image: one cell carries items
CapacityLayer == [c \in Cells |-> IF c = StartCell THEN CapDen \div 2 ELSE 0]

InitStep ==
  /\ capacity = CapacityLayer
  /\ \E k \in 0..ItemCap(StartCell) :
       items = [c \in Cells |-> IF c = StartCell THEN k ELSE 0]
  /\ foraging = [a \in Agents |-> FALSE]
  /\ handling \in [Agents -> BOOLEAN]
  /\ handle_time \in [Agents -> 0..HandlingTime]
  /\ \A a \in Agents : handling[a] <=> handle_time[a] > 0
  /\ Cardinality({a \in Agents : handle_time[a] <= 1}) <= MaxMovers
  /\ pos \in [Agents -> InitCells]
  /\ \A a \in Agents : handle_time[a] <= 1 => pos[a] = StartCell
  /\ foragers_count = RoleCount("foragers")
  /\ klepts_count = RoleCount("klepts")
  /\ handlers_count = RoleCount("handlers")
  /\ handlers = Convolve(RoleCount("handlers"))
  /\ attacking_inds_ = <<>>
  /\ attacked_inds = <<>>
  /\ conflicts_v = <<>>
  /\ pc = "growth"
  /\ idx = 1
  /\ grew = {}
  /\ itemsAtForage = items
  /\ picks = NoPicks
  /\ lastPick = <<>>
  /\ selected = NoSelection
  /\ resolved = <<>>
  /\ lastFight = <<>>

\* --------------------------------------------------- simulate_timestep
\* (mutant) growth that forgets the cap
GrowItemUncapped(c) == items[c] + 1

\* items[i] = min(floor(capacity[i] * max_item_cap), floor(items[i] + 1.0f))
GrowItem(c) == Min(ItemCap(c), items[c] + 1)

\* the growth loop: one bernoulli(item_growth) draw per cell.  On a cell of
\* capacity 0 both outcomes of the draw leave the same value, so the draw is
\* taken as successful there.
ItemGrowth ==
  /\ pc = "growth"
  /\ UNCHANGED <<genVars, runVars, ctorVars, netVars>>
  /\ \E grown \in SUBSET {c \in Cells : capacity[c] > 0} :
       /\ items' = [c \in Cells |->
                      IF c \in grown \/ capacity[c] = 0 THEN GrowItem(c) ELSE items[c]]
       /\ grew' = grown
  /\ pc' = "do_handle"
  /\ UNCHANGED <<pos, foraging, handling, handle_time, capacity, Occupancy, Lists, idx,
                 itemsAtForage, picks, lastPick, selected, resolved, lastFight>>

\* Individual::do_handle for every agent: the handle timer counts down and
\* the agent leaves handling when it reaches 0
DoHandle ==
  /\ pc = "do_handle"
  /\ UNCHANGED <<genVars, runVars, ctorVars, netVars>>
  /\ handle_time' = [a \in Agents |->
                       IF handling[a] THEN handle_time[a] - 1 ELSE handle_time[a]]
  /\ handling' = [a \in Agents |-> handling[a] /\ handle_time[a] - 1 > 0]
  /\ grew' = {}
  /\ pc' = "occupancy"
  /\ UNCHANGED <<pos, foraging, items, capacity, Occupancy, Lists, idx,
                 itemsAtForage, picks, lastPick, selected, resolved, lastFight>>

\* landscape_.update_occupancy before the move
UpdateOccupancyPreMove ==
  /\ pc = "occupancy"
  /\ UNCHANGED <<genVars, runVars, ctorVars, netVars>>
  /\ update_occupancy
  /\ pc' = "move"
  /\ UNCHANGED <<pos, foraging, handling, handle_time, items, capacity, Lists, idx, History>>

\* agents_.ann->move: every agent that is not handling lets its network pick
\* a cell within its range and a posture
Move ==
  /\ pc = "move"
  /\ UNCHANGED <<genVars, runVars, ctorVars, netVars>>
  /\ LET Movers == {a \in Agents : ~handle(a)}
     IN  \E mv \in [Movers -> Offsets(MoveRadius) \X BOOLEAN] :
           /\ pos' = [a \in Agents |->
                        IF a \in Movers THEN wrap(Add(pos[a], mv[a][1])) ELSE pos[a]]
           /\ foraging' = [a \in Agents |->
                             IF a \in Movers THEN mv[a][2] ELSE foraging[a]]
  /\ pc' = "resolve"
  /\ UNCHANGED <<handling, handle_time, items, capacity, Occupancy, Lists, idx, History>>

\* ------------------------------------------- resolve_grazing_and_attacks
\* attacking_inds_.clear(); attacked_potentially_.clear(); attacked_inds.clear()
BeginResolve ==
  /\ pc = "resolve"
  /\ UNCHANGED <<genVars, runVars, ctorVars, netVars>>
  /\ attacking_inds_' = <<>>
  /\ attacked_inds' = <<>>
  /\ idx' = 1
  /\ itemsAtForage' = items
  /\ picks' = NoPicks
  /\ pc' = "forage"
  /\ UNCHANGED <<pos, foraging, handling, handle_time, items, capacity, Occupancy,
                 conflicts_v, grew, lastPick, selected, resolved, lastFight>>

\* (mutant) the detection draw is made on empty cells too
CanDetectOnEmpty(a) == ~handle(a) /\ foraging[a]

\* the conditions under which the detection draw is made for agent a
CanDetect(a) == ~handle(a) /\ foraging[a] /\ items[pos[a]] >= 1

\* Individual::pick_item
pick_item_handling(a) == [handling EXCEPT ![a] = TRUE]
pick_item_time(a) == [handle_time EXCEPT ![a] = HandlingTime]

\* items(pos) -= 1.0f
TakeItem(c) == [items EXCEPT ![c] = items[c] - 1]

\* one iteration of the foraging loop in which the agent picks an item: the
\* draw bernoulli(1 - (1 - detection_rate)^items) succeeded
ForagePick ==
  /\ pc = "forage"
  /\ UNCHANGED <<genVars, runVars, ctorVars, netVars>>
  /\ idx <= NAgents
  /\ CanDetect(idx)
  /\ handling' = pick_item_handling(idx)
  /\ handle_time' = pick_item_time(idx)
  /\ items' = TakeItem(pos[idx])
  /\ picks' = [picks EXCEPT ![pos[idx]] = picks[pos[idx]] + 1]
  /\ lastPick' = <<[agent |-> idx, cell |-> pos[idx], wasHandling |-> handling[idx],
                    wasForaging |-> foraging[idx], itemsBefore |-> items[pos[idx]]]>>
  /\ idx' = idx + 1
  /\ UNCHANGED <<pos, foraging, capacity, Occupancy, Lists, pc, grew, itemsAtForage,
                 selected, resolved, lastFight>>

\* one iteration of the foraging loop without a pick: the agent is handling,
\* not foraging, on an empty cell, or the detection draw failed
ForageSkip ==
  /\ pc = "forage"
  /\ UNCHANGED <<genVars, runVars, ctorVars, netVars>>
  /\ idx <= NAgents
  /\ lastPick' = <<>>
  /\ idx' = idx + 1
  /\ UNCHANGED <<pos, foraging, handling, handle_time, items, capacity, Occupancy, Lists,
                 pc, grew, itemsAtForage, picks, selected, resolved, lastFight>>

\* (mutant) any agent under a handler density of one or more is listed
IsNearHandlers(a) == handlers[pos[a]] >= 1

\* the test that puts agent a into attacking_inds_
IsAttacker(a) == ~handling[a] /\ ~foraging[a] /\ handlers[pos[a]] >= 1

RECURSIVE AttackersUpTo(_)
AttackersUpTo(n) ==
  IF n = 0 THEN <<>>
  ELSE IF IsAttacker(n) THEN Append(AttackersUpTo(n - 1), n) ELSE AttackersUpTo(n - 1)

\* the loop that fills attacking_inds_
BuildAttackers ==
  /\ pc = "forage"
  /\ UNCHANGED <<genVars, runVars, ctorVars, netVars>>
  /\ idx > NAgents
  /\ attacking_inds_' = AttackersUpTo(NAgents)
  /\ lastPick' = <<>>
  /\ picks' = NoPicks
  /\ itemsAtForage' = items
  /\ idx' = 1
  /\ pc' = "select"
  /\ UNCHANGED <<pos, foraging, handling, handle_time, items, capacity, Occupancy,
                 attacked_inds, conflicts_v, grew, selected, resolved, lastFight>>

\* attacked_potentially_ for attacker a, in population order
RECURSIVE PotentialUpTo(_, _)
PotentialUpTo(a, n) ==
  IF n = 0 THEN <<>>
  ELSE IF pos[a] = pos[n] /\ a # n /\ handling[n]
       THEN Append(PotentialUpTo(a, n - 1), n)
       ELSE PotentialUpTo(a, n - 1)
attacked_potentially_(a) == PotentialUpTo(a, NAgents)

\* one iteration of the victim loop: the attacker has candidates and draws one
SelectVictim ==
  /\ pc = "select"
  /\ UNCHANGED <<genVars, runVars, ctorVars, netVars>>
  /\ idx <= Len(attacking_inds_)
  /\ LET a == attacking_inds_[idx]
         pot == attacked_potentially_(a)
     IN  /\ pot # <<>>
         /\ \E focal_ind \in 1..Len(pot) :
              /\ attacked_inds' = Append(attacked_inds, pot[focal_ind])
              /\ selected' = [selected EXCEPT ![a] = pot[focal_ind]]
  /\ idx' = idx + 1
  /\ UNCHANGED <<pos, foraging, handling, handle_time, items, capacity, Occupancy,
                 attacking_inds_, conflicts_v, pc, grew, itemsAtForage, picks, lastPick,
                 resolved, lastFight>>

\* one iteration of the victim loop: attacked_potentially_ is empty, nothing
\* is pushed
SelectNoVictim ==
  /\ pc = "select"
  /\ UNCHANGED <<genVars, runVars, ctorVars, netVars>>
  /\ idx <= Len(attacking_inds_)
  /\ attacked_potentially_(attacking_inds_[idx]) = <<>>
  /\ idx' = idx + 1
  /\ UNCHANGED <<pos, foraging, handling, handle_time, items, capacity, Occupancy, Lists,
                 pc, grew, itemsAtForage, picks, lastPick, selected, resolved, lastFight>>

\* what reading attacked_inds[i] yields: the element, or, beyond the vector's
\* size, whatever the memory holds (some agent's address, or no valid address)
VictimAt(i) ==
  IF i <= Len(attacked_inds) THEN {attacked_inds[i]} ELSE Agents \cup {BadPtr}

\* the value copied into conflicts_v[i].second; beyond the vector's size it is
\* indeterminate and kept as BadPtr (it is never dereferenced)
CopiedVictim(i) == IF i <= Len(attacked_inds) THEN attacked_inds[i] ELSE BadPtr

ShuffleOrders(n) == {p \in [1..n -> 1..n] : \A i, j \in 1..n : p[i] = p[j] => i = j}

\* conflicts_v is filled and std::shuffle'd
Shuffle ==
  /\ pc = "select"
  /\ UNCHANGED <<genVars, runVars, ctorVars, netVars>>
  /\ idx > Len(attacking_inds_)
  /\ LET n == Len(attacking_inds_)
         filled == [i \in 1..n |-> <<attacking_inds_[i], CopiedVictim(i)>>]
     IN  \E p \in ShuffleOrders(n) : conflicts_v' = [i \in 1..n |-> filled[p[i]]]
  /\ idx' = 1
  /\ pc' = "fight"
  /\ UNCHANGED <<pos, foraging, handling, handle_time, items, capacity, Occupancy,
                 attacking_inds_, attacked_inds, History>>

\* the pair the fight loop takes in its iteration i
FightAttacker(i) == attacking_inds_[i]
FightVictims(i) == VictimAt(i)

\* Individual::flee: a random cell within flee_radius, wrapped
flee(p, d) == wrap(Add(p, d))

\* (mutant) the winner does not take over the victim's handling state
WinNothing(a, v) == handling

\* attacker a takes over from victim v
WinHandling(a, v) == [handling EXCEPT ![a] = handling[v]]
\* (mutant) the winner does not take over the victim's timer
WinHandleTimeKept(a, v) == handle_time

WinHandleTime(a, v) == [handle_time EXCEPT ![a] = handle_time[v]]

\* one iteration of the fight loop
FightStep ==
  /\ pc = "fight"
  /\ UNCHANGED <<genVars, runVars, ctorVars, netVars>>
  /\ idx <= Len(attacking_inds_)
  /\ \E v \in FightVictims(idx) :
       LET a == FightAttacker(idx) IN
       IF v = BadPtr
       THEN /\ pc' = "crashed"
            /\ UNCHANGED <<pos, handling, handle_time, idx, resolved, lastFight>>
       ELSE /\ pc' = pc
            /\ idx' = idx + 1
            /\ \E fight \in BernoulliOutcomes(prob_to_fight, 1),
                  wins \in BernoulliOutcomes(initiator_wins, 1),
                  d \in Offsets(flee_radius) :
                 IF handling[v] /\ fight
                 THEN /\ resolved' = Append(resolved, [att |-> a, vic |-> v, fought |-> TRUE])
                      /\ lastFight' = <<[att |-> a, vic |-> v, won |-> wins,
                                         vicTime |-> handle_time[v],
                                         attPos |-> pos[a], vicPos |-> pos[v]]>>
                      /\ IF wins
                         THEN /\ handling' = [WinHandling(a, v) EXCEPT ![v] = FALSE]
                              /\ handle_time' = WinHandleTime(a, v)
                              /\ pos' = [pos EXCEPT ![v] = flee(pos[v], d)]
                         ELSE /\ pos' = [pos EXCEPT ![a] = flee(pos[a], d)]
                              /\ handling' = [handling EXCEPT ![a] = FALSE]
                              /\ UNCHANGED handle_time
                 ELSE /\ d = <<0, 0>>
                      /\ resolved' = Append(resolved, [att |-> a, vic |-> v, fought |-> FALSE])
                      /\ lastFight' = <<>>
                      /\ UNCHANGED <<pos, handling, handle_time>>
  /\ UNCHANGED <<foraging, items, capacity, Occupancy, Lists, grew, itemsAtForage, picks,
                 lastPick, selected>>

\* (mutant) the timestep ends without the second update_occupancy
EndTimestepWithoutUpdate ==
  /\ pc = "fight"
  /\ UNCHANGED <<genVars, runVars, ctorVars, netVars>>
  /\ idx > Len(attacking_inds_)
  /\ conflicts_v' = <<>>
  /\ lastFight' = <<>>
  /\ selected' = NoSelection
  /\ resolved' = <<>>
  /\ idx' = 1
  /\ pc' = "done"
  /\ UNCHANGED <<pos, foraging, handling, handle_time, items, capacity, Occupancy,
                 attacking_inds_, attacked_inds, grew, itemsAtForage, picks, lastPick>>

\* conflicts_v.clear(), then back in simulate_timestep the second
\* landscape_.update_occupancy
UpdateOccupancyPostResolve ==
  /\ pc = "fight"
  /\ UNCHANGED <<genVars, runVars, ctorVars, netVars>>
  /\ idx > Len(attacking_inds_)
  /\ conflicts_v' = <<>>
  /\ update_occupancy
  /\ lastFight' = <<>>
  /\ selected' = NoSelection
  /\ resolved' = <<>>
  /\ idx' = 1
  /\ pc' = "done"
  /\ UNCHANGED <<pos, foraging, handling, handle_time, items, capacity,
                 attacking_inds_, attacked_inds, grew, itemsAtForage, picks, lastPick>>

NextStep ==
  \/ ItemGrowth
  \/ DoHandle
  \/ UpdateOccupancyPreMove
  \/ Move
  \/ BeginResolve
  \/ ForagePick
  \/ ForageSkip
  \/ BuildAttackers
  \/ SelectVictim
  \/ SelectNoVictim
  \/ Shuffle
  \/ FightStep
  \/ UpdateOccupancyPostResolve


\* ====================================================================
\* detail::create_new_generation
\* Slot i of the code is agent i + 1 here; ancestor 0 marks a slot of the
\* staging array that no iteration has written.
\* ====================================================================
\* the live agent array seen as records
LivePop == [a \in Agents |-> [pos |-> pos[a], ancestor |-> ancestor[a],
                               foraging |-> foraging[a], handling |-> handling[a],
                               handle_time |-> handle_time[a]]]

\* Individual::sprout(pos, ancestor): a fresh individual
sprout(p, anc) == [pos |-> p, ancestor |-> anc, foraging |-> FALSE, handling |-> FALSE,
                   handle_time |-> 0]

\* AnyANN::assign(src, ancestor, i) on dst: the full state block is copied
assign(dst, src, anc, i) == [dst EXCEPT ![i] = src[anc]]

\* activation::rtlu::apply and feedback::none::apply
rtlu(u) == Max(0, u)
feedback_none(u) == u

\* Neuron::feed, biased: state[0] is the bias, state[i] weighs in[i - 1]
RECURSIVE WeightedSum(_, _, _)
WeightedSum(in, state, i) ==
  IF i = 0 THEN state[1] ELSE state[i + 1] * in[i] + WeightedSum(in, state, i - 1)
feed(in, state) == rtlu(feedback_none(WeightedSum(in, state, input_size)))

\* AnyANN::mutate on one state block: a weight is perturbed
Perturb(state) == [state EXCEPT ![1] = state[1] + 1]

\* the generation that is replaced
GenPos(a) == <<(2 * a) % Dim, (2 * (a \div 2)) % Dim>>
GenNet(a) == <<a, 1 - a, 1>>
StaleNet == <<0, 0, 0>>

\* no network type is under study
NetIdle ==
  /\ layers = <<>>
  /\ npc = "idle"
  /\ state_ = <<>>
  /\ net_in = <<>>
  /\ net_out = <<>>
  /\ feeds = 0
  /\ prev_state = <<>>
  /\ prev_out = <<>>
  /\ fed_at = <<>>

\* if (landscape_.dim() < 32) throw
MinDim == 32
\* Pop.ann->N() and Pop.ann->type_size()
ann_N == NAgents
type_size == Len(StaleNet)

\* the constructor has returned: a landscape of the least side, no archive
CtorIdle ==
  /\ cpc = "constructed"
  /\ dim = MinDim
  /\ image = [width |-> MinDim, height |-> MinDim]
  /\ archive = [present |-> FALSE, un |-> ann_N, usize |-> type_size]

StepIdle ==
  /\ capacity = ZeroLayer
  /\ items = ZeroLayer
  /\ foragers_count = ZeroLayer
  /\ klepts_count = ZeroLayer
  /\ handlers_count = ZeroLayer
  /\ handlers = ZeroLayer
  /\ attacking_inds_ = <<>>
  /\ attacked_inds = <<>>
  /\ conflicts_v = <<>>
  /\ pc = "idle"
  /\ idx = 1
  /\ grew = {}
  /\ itemsAtForage = ZeroLayer
  /\ picks = NoPicks
  /\ lastPick = <<>>
  /\ selected = NoSelection
  /\ resolved = <<>>
  /\ lastFight = <<>>

PopIdle ==
  /\ pos = [a \in Agents |-> StartCell]
  /\ foraging = [a \in Agents |-> FALSE]
  /\ handling = [a \in Agents |-> FALSE]
  /\ handle_time = [a \in Agents |-> 0]

GenIdle ==
  /\ ancestor = [a \in Agents |-> 0]
  /\ ann = [a \in Agents |-> StaleNet]
  /\ tmp_ann = [a \in Agents |-> StaleNet]
  /\ tmp_pop = [a \in Agents |-> sprout(<<0, 0>>, 0)]
  /\ fitness = [a \in Agents |-> 0]
  /\ rdist = {}
  /\ reng = <<>>
  /\ gphase = "idle"
  /\ written = {}

\* Simulation::run is not running
RunIdle ==
  /\ observer = "null"
  /\ Gburnin = 0
  /\ G = 0
  /\ T = 0
  /\ Tfix = 0
  /\ Gfix = 0
  /\ rpc = "idle"
  /\ phase = "burn"
  /\ gb = 0
  /\ tb = 0
  /\ g_ = 0 - 1
  /\ t_ = 0 - 1
  /\ rdistFresh = FALSE
  /\ trace = <<>>
  /\ vetoed = FALSE

\* the state create_new_generation is called in: a population at the end of
\* its generation, the staging arrays holding what an earlier swap left, and
\* rdist built by assess_fitness
InitGen ==
  /\ StepIdle
  /\ RunIdle
  /\ CtorIdle
  /\ NetIdle
  /\ pos = [a \in Agents |-> GenPos(a)]
  /\ foraging = [a \in Agents |-> FALSE]
  /\ handling = [a \in Agents |-> FALSE]
  /\ handle_time = [a \in Agents |-> 0]
  /\ ancestor = [a \in Agents |-> a]
  /\ ann = [a \in Agents |-> GenNet(a)]
  /\ tmp_ann = [a \in Agents |-> StaleNet]
  /\ tmp_pop = [a \in Agents |-> sprout(<<0, 0>>, 0)]
  /\ fitness \in [Agents -> 0..1]
  /\ rdist = {a \in Agents : fitness[a] > 0}
  /\ rdist # {}
  /\ Cardinality(rdist) <= MaxParents
  /\ reng = <<>>
  /\ gphase = "copy"
  /\ written = {}

\* (mutant) the network is copied from the offspring's own slot
CopyAnnFromSlot(anc, i) == assign(tmp_ann, ann, i, i)

\* tmp_ann.assign(ann, ancestor, i)
CopyAnn(anc, i) == assign(tmp_ann, ann, anc, i)

\* tmp_pop[i].sprout(landscape.wrap(newPos), ancestor)
SproutSlot(anc, i, d) == [tmp_pop EXCEPT ![i] = sprout(wrap(Add(pos[anc], d)), anc)]

\* (mutant) reproduction in place: the offspring's network overwrites the
\* live slot
CopySlotInPlace(i) ==
  /\ gphase = "copy"
  /\ i \notin written
  /\ \E anc \in rdist, d \in Offsets(sprout_radius) :
       /\ tmp_pop' = SproutSlot(anc, i, d)
       /\ ann' = assign(ann, ann, anc, i)
  /\ written' = written \cup {i}
  /\ reng' = Append(reng, i)
  /\ UNCHANGED <<ancestor, tmp_ann, fitness, rdist, gphase>>
  /\ UNCHANGED <<stepVars, runVars, ctorVars, netVars>>

\* one iteration of the omp for loop, for slot i; the iterations run in any
\* order
CopySlot(i) ==
  /\ gphase = "copy"
  /\ i \notin written
  /\ \E anc \in rdist, d \in Offsets(sprout_radius) :
       /\ tmp_pop' = SproutSlot(anc, i, d)
       /\ tmp_ann' = CopyAnn(anc, i)
  /\ written' = written \cup {i}
  /\ reng' = Append(reng, i)
  /\ UNCHANGED <<ancestor, ann, fitness, rdist, gphase>>
  /\ UNCHANGED <<stepVars, runVars, ctorVars, netVars>>

\* population.tmp_ann->mutate(iparam, fixed), after the parallel region
MutateStaging ==
  /\ gphase = "copy"
  /\ written = Agents
  /\ \E hit \in SUBSET Agents :
       tmp_ann' = [a \in Agents |-> IF a \in hit THEN Perturb(tmp_ann[a]) ELSE tmp_ann[a]]
  /\ gphase' = "swap"
  /\ reng' = <<>>
  /\ UNCHANGED <<ancestor, ann, tmp_pop, fitness, rdist, written>>
  /\ UNCHANGED <<stepVars, runVars, ctorVars, netVars>>

\* (mutant) the staging arrays are moved into the live ones and left empty
MoveBuffers ==
  /\ gphase = "swap"
  /\ pos' = [a \in Agents |-> tmp_pop[a].pos]
  /\ ancestor' = [a \in Agents |-> tmp_pop[a].ancestor]
  /\ foraging' = [a \in Agents |-> tmp_pop[a].foraging]
  /\ handling' = [a \in Agents |-> tmp_pop[a].handling]
  /\ handle_time' = [a \in Agents |-> tmp_pop[a].handle_time]
  /\ tmp_pop' = <<>>
  /\ ann' = tmp_ann
  /\ tmp_ann' = <<>>
  /\ gphase' = "done"
  /\ UNCHANGED <<fitness, rdist, reng, written>>
  /\ UNCHANGED <<items, capacity, Occupancy, Lists, pc, idx, History>>
  /\ UNCHANGED <<runVars, ctorVars, netVars>>

\* swap(population.pop, population.tmp_pop); swap(population.ann, population.tmp_ann)
SwapBuffers ==
  /\ gphase = "swap"
  /\ pos' = [a \in Agents |-> tmp_pop[a].pos]
  /\ ancestor' = [a \in Agents |-> tmp_pop[a].ancestor]
  /\ foraging' = [a \in Agents |-> tmp_pop[a].foraging]
  /\ handling' = [a \in Agents |-> tmp_pop[a].handling]
  /\ handle_time' = [a \in Agents |-> tmp_pop[a].handle_time]
  /\ tmp_pop' = LivePop
  /\ ann' = tmp_ann
  /\ tmp_ann' = ann
  /\ gphase' = "done"
  /\ UNCHANGED <<fitness, rdist, reng, written>>
  /\ UNCHANGED <<items, capacity, Occupancy, Lists, pc, idx, History>>
  /\ UNCHANGED <<runVars, ctorVars, netVars>>

NextGen ==
  \/ \E i \in Agents : CopySlot(i)
  \/ MutateStaging
  \/ SwapBuffers

\* ====================================================================
\* Simulation::run
\* ====================================================================
\* Simulation::fixed(): the generations from Gfix on are flagged
fixed == g_ >= Gfix

\* (mutant) every main generation runs param_.T timesteps
TimestepsAlwaysT == T

\* const int T = fixed() ? param_.Tfix : param_.T
TimestepsOfGeneration == IF fixed THEN Tfix ELSE T

\* an entry of the trace
Ev(name) == [e |-> name, ph |-> phase, g |-> IF phase = "burn" THEN gb ELSE g_,
             fresh |-> rdistFresh]

\* what observer->notify can return; with no observer the macro's condition
\* is true and run returns false
NotifyOutcomes ==
  IF observer = "null" THEN {FALSE}
  ELSE IF observer = "never_vetoes" THEN {TRUE}
  ELSE BOOLEAN

\* the trace after the macro: a present observer has received msg
Delivered(msg) == IF observer = "null" THEN trace ELSE Append(trace, Ev(msg))

Params == <<observer, Gburnin, G, T, Tfix, Gfix>>

\* (mutant) the macro without its return: the answer of notify is dropped
notify_and_continue(next) ==
  \E ok \in NotifyOutcomes :
    /\ rpc' = next
    /\ vetoed' = (vetoed \/ (observer # "null" /\ ~ok))

\* if ((observer ? !observer->notify(this, msg) : true)) return false
simulation_observer_notify(next) ==
  \E ok \in NotifyOutcomes :
    /\ rpc' = IF ok THEN next ELSE "returned_false"
    /\ vetoed' = (vetoed \/ (observer # "null" /\ ~ok))

\* after construction: g_(-1), t_(-1)
InitRun ==
  /\ StepIdle
  /\ PopIdle
  /\ GenIdle
  /\ CtorIdle
  /\ NetIdle
  /\ observer \in {"null", "never_vetoes", "may_veto"}
  /\ Gburnin \in 0..MaxGburnin
  /\ G \in 0..MaxG
  /\ T \in 0..MaxT
  /\ Tfix \in 0..MaxT
  /\ Gfix \in 0..MaxG
  /\ rpc = "start"
  /\ phase = "burn"
  /\ gb = 0
  /\ tb = 0
  /\ g_ = 0 - 1
  /\ t_ = 0 - 1
  /\ rdistFresh = FALSE
  /\ trace = <<>>
  /\ vetoed = FALSE

RunFrame == UNCHANGED <<stepVars, genVars, Params, ctorVars, netVars>>

\* simulation_observer_notify(INITIALIZED); const int Gb = param_.Gburnin; gb = 0
NotifyInitialized ==
  /\ rpc = "start"
  /\ trace' = Delivered("INITIALIZED")
  /\ simulation_observer_notify("burn_head")
  /\ UNCHANGED <<phase, gb, tb, g_, t_, rdistFresh>>
  /\ RunFrame

\* for (gb ...; gb < Gb; ...) entered: const int Tb = param_.T; tb = 0
BurnLoopEnter ==
  /\ rpc = "burn_head"
  /\ gb < Gburnin
  /\ tb' = 0
  /\ rpc' = "burn_t"
  /\ UNCHANGED <<phase, gb, g_, t_, rdistFresh, trace>>
  /\ UNCHANGED vetoed
  /\ RunFrame

\* the burn-in loop is left: const int G = param_.G; g_ = 0
BurnLoopExit ==
  /\ rpc = "burn_head"
  /\ gb >= Gburnin
  /\ g_' = 0
  /\ phase' = "main"
  /\ rpc' = "main_head"
  /\ UNCHANGED <<gb, tb, t_, rdistFresh, trace>>
  /\ UNCHANGED vetoed
  /\ RunFrame

\* simulate_timestep() in the burn-in
BurnTimestep ==
  /\ rpc = "burn_t"
  /\ tb < T
  /\ trace' = Append(trace, Ev("timestep"))
  /\ rdistFresh' = FALSE
  /\ rpc' = "burn_watchdog"
  /\ UNCHANGED <<phase, gb, tb, g_, t_>>
  /\ UNCHANGED vetoed
  /\ RunFrame

\* simulation_observer_notify(WATCHDOG); ++tb
NotifyWatchdog ==
  /\ rpc = "burn_watchdog"
  /\ trace' = Delivered("WATCHDOG")
  /\ simulation_observer_notify("burn_t")
  /\ tb' = tb + 1
  /\ UNCHANGED <<phase, gb, g_, t_, rdistFresh>>
  /\ RunFrame

\* (mutant) the fitness is assessed but the selection distribution is left
\* as it was
rdist_kept == rdistFresh

\* detail::assess_fitness: fitness[i] is computed for every i of the live
\* population, then population.rdist.mutate(fitness) rebuilds rdist from it
rdist_mutate == TRUE

\* (mutant) a burn-in generation that is recorded by the analysis as well
BurnAssessRecorded ==
  /\ rpc = "burn_t"
  /\ tb >= T
  /\ rdistFresh' = rdist_mutate
  /\ trace' = Append(Append(trace, Ev("assess")), Ev("analysis"))
  /\ rpc' = "create_copy"
  /\ UNCHANGED <<phase, gb, tb, g_, t_>>
  /\ UNCHANGED vetoed
  /\ RunFrame

\* agents_.fitness.assign(size, 0.f); assess_fitness()
BurnAssess ==
  /\ rpc = "burn_t"
  /\ tb >= T
  /\ rdistFresh' = rdist_mutate
  /\ trace' = Append(trace, Ev("assess"))
  /\ rpc' = "create_copy"
  /\ UNCHANGED <<phase, gb, tb, g_, t_>>
  /\ UNCHANGED vetoed
  /\ RunFrame

\* create_new_generations(): the parallel region of create_new_generation
CreateOffspring ==
  /\ rpc = "create_copy"
  /\ trace' = Append(trace, Ev("copy"))
  /\ rpc' = "create_mutate"
  /\ UNCHANGED <<phase, gb, tb, g_, t_, rdistFresh>>
  /\ UNCHANGED vetoed
  /\ RunFrame

\* population.tmp_ann->mutate(iparam, fixed)
MutateOffspring ==
  /\ rpc = "create_mutate"
  /\ trace' = Append(trace, Ev("mutate"))
  /\ rpc' = "create_swap"
  /\ UNCHANGED <<phase, gb, tb, g_, t_, rdistFresh>>
  /\ UNCHANGED vetoed
  /\ RunFrame

\* the two swaps, the return to run and the loop increment (++gb or ++g_);
\* rdist now describes the population that was replaced
SwapGeneration ==
  /\ rpc = "create_swap"
  /\ trace' = Append(trace, Ev("swap"))
  /\ rdistFresh' = FALSE
  /\ IF phase = "burn"
     THEN /\ gb' = gb + 1
          /\ rpc' = "burn_head"
          /\ UNCHANGED g_
     ELSE /\ g_' = g_ + 1
          /\ rpc' = "main_head"
          /\ UNCHANGED gb
  /\ UNCHANGED <<phase, tb, t_>>
  /\ UNCHANGED vetoed
  /\ RunFrame

\* g_ < G: simulation_observer_notify(NEW_GENERATION); t_ = 0
NotifyNewGeneration ==
  /\ rpc = "main_head"
  /\ g_ < G
  /\ trace' = Delivered("NEW_GENERATION")
  /\ simulation_observer_notify("main_t")
  /\ t_' = 0
  /\ UNCHANGED <<phase, gb, tb, g_, rdistFresh>>
  /\ RunFrame

\* simulate_timestep() in a main generation
MainTimestep ==
  /\ rpc = "main_t"
  /\ t_ < TimestepsOfGeneration
  /\ trace' = Append(trace, Ev("timestep"))
  /\ rdistFresh' = FALSE
  /\ rpc' = "main_post"
  /\ UNCHANGED <<phase, gb, tb, g_, t_>>
  /\ UNCHANGED vetoed
  /\ RunFrame

\* (mutant) the tick after a main timestep is not sent
SkipPostTimestep ==
  /\ rpc = "main_post"
  /\ rpc' = "main_t"
  /\ t_' = t_ + 1
  /\ UNCHANGED <<phase, gb, tb, g_, rdistFresh, trace>>
  /\ UNCHANGED vetoed
  /\ RunFrame

\* simulation_observer_notify(POST_TIMESTEP); ++t_
NotifyPostTimestep ==
  /\ rpc = "main_post"
  /\ trace' = Delivered("POST_TIMESTEP")
  /\ simulation_observer_notify("main_t")
  /\ t_' = t_ + 1
  /\ UNCHANGED <<phase, gb, tb, g_, rdistFresh>>
  /\ RunFrame

\* assess_fitness() of a main generation
MainAssess ==
  /\ rpc = "main_t"
  /\ t_ >= TimestepsOfGeneration
  /\ rdistFresh' = rdist_mutate
  /\ trace' = Append(trace, Ev("assess"))
  /\ rpc' = "analysis"
  /\ UNCHANGED <<phase, gb, tb, g_, t_>>
  /\ UNCHANGED vetoed
  /\ RunFrame

\* analysis_.generation(this)
AnalysisGeneration ==
  /\ rpc = "analysis"
  /\ trace' = Append(trace, Ev("analysis"))
  /\ rpc' = "notify_generation"
  /\ UNCHANGED <<phase, gb, tb, g_, t_, rdistFresh>>
  /\ UNCHANGED vetoed
  /\ RunFrame

\* simulation_observer_notify(GENERATION)
NotifyGeneration ==
  /\ rpc = "notify_generation"
  /\ trace' = Delivered("GENERATION")
  /\ simulation_observer_notify("create_copy")
  /\ UNCHANGED <<phase, gb, tb, g_, t_, rdistFresh>>
  /\ RunFrame

\* g_ >= G: simulation_observer_notify(FINISHED); return true
NotifyFinished ==
  /\ rpc = "main_head"
  /\ g_ >= G
  /\ trace' = Delivered("FINISHED")
  /\ simulation_observer_notify("returned_true")
  /\ UNCHANGED <<phase, gb, tb, g_, t_, rdistFresh>>
  /\ RunFrame

NextRun ==
  \/ NotifyInitialized
  \/ BurnLoopEnter
  \/ BurnLoopExit
  \/ BurnTimestep
  \/ NotifyWatchdog
  \/ BurnAssess
  \/ CreateOffspring
  \/ MutateOffspring
  \/ SwapGeneration
  \/ NotifyNewGeneration
  \/ MainTimestep
  \/ NotifyPostTimestep
  \/ MainAssess
  \/ AnalysisGeneration
  \/ NotifyGeneration
  \/ NotifyFinished

\* ====================================================================
\* Simulation::Simulation, init_layer, init_anns_from_archive
\* ====================================================================
\* the sides an image or an established landscape can have, around the least
Sides == {MinDim - 1, MinDim, MinDim + 1}

\* the state array of slot a in the archive
ArchiveNet(a) == GenNet(a)

\* the layers and lists as the members' constructors leave them
Blank ==
  /\ capacity = ZeroLayer
  /\ items = ZeroLayer
  /\ foragers_count = ZeroLayer
  /\ klepts_count = ZeroLayer
  /\ handlers_count = ZeroLayer
  /\ handlers = ZeroLayer
  /\ attacking_inds_ = <<>>
  /\ attacked_inds = <<>>
  /\ conflicts_v = <<>>
  /\ pc = "idle"
  /\ idx = 1
  /\ grew = {}
  /\ itemsAtForage = ZeroLayer
  /\ picks = NoPicks
  /\ lastPick = <<>>
  /\ selected = NoSelection
  /\ resolved = <<>>
  /\ lastFight = <<>>

\* the member initialisers and lines 20-24: g_(-1), t_(-1), pop, tmp_pop, ann,
\* fitness and tmp_ann of N elements; the inputs are the image of the capacity
\* layer, the side of landscape_ and the archive named by init_agents_ann
InitCtor ==
  /\ Blank
  /\ PopIdle
  /\ GenIdle
  /\ observer = "never_vetoes"
  /\ Gburnin = 1
  /\ G = 1
  /\ T = 1
  /\ Tfix = 1
  /\ Gfix = 1
  /\ rpc = "start"
  /\ phase = "burn"
  /\ gb = 0
  /\ tb = 0
  /\ g_ = 0 - 1
  /\ t_ = 0 - 1
  /\ rdistFresh = FALSE
  /\ trace = <<>>
  /\ vetoed = FALSE
  /\ NetIdle
  /\ cpc = "init_layer"
  /\ dim \in {0, MinDim - 1, MinDim}
  /\ image \in [width : Sides, height : Sides]
  /\ archive \in [present : BOOLEAN, un : {ann_N, ann_N + 1},
                  usize : {type_size, type_size + 1}]

\* the side after: if (landscape_.dim() == 0) landscape_ = Landscape(image.width())
EstablishedDim == IF dim = 0 THEN image.width ELSE dim

\* init_layer(param_.landscape.capacity)
init_layer ==
  /\ cpc = "init_layer"
  /\ dim' = EstablishedDim
  /\ IF ~(image.width = dim' /\ image.height = dim')
     THEN /\ cpc' = "failed"     \* throw "image dimension mismatch"
          /\ UNCHANGED capacity
     ELSE /\ cpc' = "check_dim"
          /\ capacity' = CapacityLayer   \* image_channel_to_layer
  /\ UNCHANGED <<pos, foraging, handling, handle_time, items, Occupancy, Lists,
                 pc, idx, History>>
  /\ UNCHANGED <<genVars, runVars, image, archive, netVars>>

\* the agents of a cell when none handles and none forages: all are klepts
KleptsAt(p) == [c \in Cells |-> Cardinality({a \in Agents : p[a] = c})]

\* lines 30-53: the test of the side, the items at their cap, the initial
\* positions and the first update_occupancy
FillLandscape ==
  /\ cpc = "check_dim"
  /\ IF dim < MinDim
     THEN /\ cpc' = "failed"     \* throw "Landscape too small"
          /\ UNCHANGED <<pos, items, Occupancy>>
     ELSE /\ cpc' = "archive"
          /\ items' = [c \in Cells |-> ItemCap(c)]
          /\ pos' \in [Agents -> InitCells]
          /\ foragers_count' = ZeroLayer
          /\ klepts_count' = KleptsAt(pos')
          /\ handlers_count' = ZeroLayer
          /\ handlers' = Convolve(handlers_count')
  /\ UNCHANGED <<foraging, handling, handle_time, capacity, Lists, pc, idx, History>>
  /\ UNCHANGED <<genVars, runVars, dim, image, archive, netVars>>

\* (mutant) uncompress runs before the two tests of cm
UncompressThenTest ==
  /\ cpc = "archive"
  /\ IF ~archive.present
     THEN /\ cpc' = "constructed"
          /\ UNCHANGED ann
     ELSE /\ ann' = [a \in Agents |-> ArchiveNet(a)]
          /\ cpc' = IF archive.un # ann_N \/ archive.usize # type_size
                    THEN "failed" ELSE "constructed"
  /\ UNCHANGED <<ancestor, tmp_ann, tmp_pop, fitness, rdist, reng, gphase, written>>
  /\ UNCHANGED <<stepVars, runVars, dim, image, archive, netVars>>

\* lines 57-59 and init_anns_from_archive
init_anns_from_archive ==
  /\ cpc = "archive"
  /\ IF ~archive.present
     THEN /\ cpc' = "constructed"
          /\ UNCHANGED ann
     ELSE IF archive.un # ann_N \/ archive.usize # type_size
     THEN /\ cpc' = "failed"     \* throw cmd::parse_error
          /\ UNCHANGED ann
     ELSE /\ cpc' = "constructed"
          /\ ann' = [a \in Agents |-> ArchiveNet(a)]   \* uncompress(dst, cm, ...)
  /\ UNCHANGED <<ancestor, tmp_ann, tmp_pop, fitness, rdist, reng, gphase, written>>
  /\ UNCHANGED <<stepVars, runVars, dim, image, archive, netVars>>

\* Simulation::run on the object the constructor returned; a constructor left
\* by a throw returns no object to call run on
run ==
  /\ cpc = "constructed"
  /\ NextRun

NextCtor ==
  \/ init_layer
  \/ FillLandscape
  \/ init_anns_from_archive
  \/ run

\* ====================================================================
\* ann::Neuron, ann::Layer, ann::Network (ann.hpp)
\* ====================================================================
\* the widest layer and the longest input
MaxWidth == 2
\* the most evaluations of one network
MaxFeeds == 2
\* sizeof...(L)
Depths == {1, 2, 3}
\* the values Network(val) fills state_ with, and the values of an input
Vals == {0 - 1, 1}

\* extra_state<size, scratch>::value of an activation
activation_value(act) == IF act = "varsig_bipolar" THEN 1 ELSE 0
\* extra_state<size, scratch>::value and ::scratch of a feedback
feedback_value(fb) == IF fb = "direct" THEN 1 ELSE 0
feedback_scratch_value(fb) == IF fb = "direct" THEN 1 ELSE 0

\* Neuron<Input, Activation, Feedback, Biased>: its static members
input_weights(n) == n.input_size + (IF n.biased THEN 1 ELSE 0)
activation_state(n) == activation_value(n.activation)
feedback_state(n) == feedback_value(n.feedback)
feedback_scratch(n) == feedback_scratch_value(n.feedback)
total_weights(n) == input_weights(n) + activation_state(n) + feedback_state(n)
Neuron_state_size(n) == total_weights(n) + feedback_scratch(n)
activation_begin(n) == input_weights(n)
feedback_begin(n) == activation_begin(n) + activation_state(n)
feedback_scratch_begin(n) == feedback_begin(n) + feedback_state(n)

\* Layer<Neuron, N>: its static members
Layer_input_size(L) == L.neuron.input_size
Layer_state_size(L) == L.size * Neuron_state_size(L.neuron)
Layer_output_size(L) == L.size

\* detail::accum_state_size<I, C>, detail::network_state_size<L...> and
\* detail::accum_state_ofs<I, C>; C[1] is the layer of index 0
RECURSIVE accum_state_size(_, _)
accum_state_size(I, C) ==
  IF I = 1 THEN Layer_state_size(C[1])
  ELSE Layer_state_size(C[I]) + accum_state_size(I - 1, C)
network_state_size(C) == accum_state_size(Len(C), C)
\* (mutant) the size of layer I is not taken off
accum_state_end(I, C) == accum_state_size(I, C)
accum_state_ofs(I, C) == accum_state_size(I, C) - Layer_state_size(C[I])

\* (mutant) every list of layers passes
match_interface_any(C) == TRUE
\* detail::match_interface_impl and detail::match_interface
RECURSIVE match_interface_impl(_)
match_interface_impl(C) ==
  IF Len(C) = 2 THEN Layer_output_size(C[1]) = Layer_input_size(C[2])
  ELSE /\ Layer_output_size(C[1]) = Layer_input_size(C[2])
       /\ match_interface_impl(Tail(C))
match_interface(C) == IF Len(C) = 1 THEN TRUE ELSE match_interface_impl(C)

\* Network::input_size, output_size, state_size
Network_input_size == Layer_input_size(layers[1])
Network_output_size == Layer_output_size(layers[Len(layers)])
Network_state_size == network_state_size(layers)

\* get_neuron<I, J>(): the offset of its pointer from state_.data()
get_neuron(I, J) == accum_state_ofs(I, layers) + J * Neuron_state_size(layers[I].neuron)

\* activation::sgn::bipolar and ::unipolar: template <typename T> min, max
activation_min(act) == IF act = "sgn_bipolar" THEN 0 - 1 ELSE 0
activation_max(act) == 1

\* activation::...::apply(u, ps); the sigmoid of varsig is kept as a term
activation_apply(act, u, st, ps) ==
  CASE act = "identity" -> u
    [] act = "rtlu" -> Max(0, u)
    [] act = "sgn_bipolar" -> IF u > 0 THEN 0 - 1 ELSE 1
    [] act = "sgn_unipolar" -> IF u > 0 THEN 0 ELSE 1
    [] act = "varsig_bipolar" -> [exp |-> (0 - st[ps]) * u]

\* (mutant) direct feedback that stores its sum over its gain
feedback_apply_on_gain(fb, u, st, ps, scratch) ==
  IF fb = "direct"
  THEN LET v == u + st[ps] * st[scratch]
       IN  [value |-> v, state |-> [st EXCEPT ![ps] = v]]
  ELSE [value |-> u, state |-> st]
\* feedback::none::apply and feedback::direct::apply(u, ps, scratch)
feedback_apply(fb, u, st, ps, scratch) ==
  IF fb = "direct"
  THEN LET v == u + st[ps] * st[scratch]
       IN  [value |-> v, state |-> [st EXCEPT ![scratch] = v]]
  ELSE [value |-> u, state |-> st]

\* the loops of Neuron::feed: state[i] * in[i - 1] for 1 <= i <= input_size
\* when biased, state[i] * in[i] for 0 <= i < input_size when not
RECURSIVE BiasedSum(_, _, _, _)
BiasedSum(in, st, p, i) ==
  IF i = 0 THEN st[p] ELSE BiasedSum(in, st, p, i - 1) + st[p + i] * in[i]
RECURSIVE UnbiasedSum(_, _, _, _)
UnbiasedSum(in, st, p, i) ==
  IF i = 0 THEN 0 ELSE UnbiasedSum(in, st, p, i - 1) + st[p + i - 1] * in[i]

\* Neuron::feed(in, state) with state = state_.data() + p
Neuron_feed(n, in, st, p) ==
  LET u == IF n.biased THEN BiasedSum(in, st, p, n.input_size)
           ELSE UnbiasedSum(in, st, p, n.input_size)
      fb == feedback_apply(n.feedback, u, st, p + feedback_begin(n),
                           p + feedback_scratch_begin(n))
  IN  [value |-> activation_apply(n.activation, fb.value, fb.state,
                                  p + activation_begin(n)),
       state |-> fb.state]

\* Layer::feed<Ofs>(in, state) after its first k iterations: state += Ofs,
\* then pout[i] = neuron_t::feed(in, state) and state += neuron_t::state_size
RECURSIVE Layer_feed_loop(_, _, _, _, _)
Layer_feed_loop(L, Ofs, in, st, k) ==
  IF k = 0 THEN [out |-> <<>>, state |-> st, ptr |-> Ofs, ptrs |-> <<>>]
  ELSE LET before == Layer_feed_loop(L, Ofs, in, st, k - 1)
           r == Neuron_feed(L.neuron, in, before.state, before.ptr)
       IN  [out |-> Append(before.out, r.value),
            state |-> r.state,
            ptr |-> before.ptr + Neuron_state_size(L.neuron),
            ptrs |-> Append(before.ptrs, before.ptr)]
Layer_feed(L, Ofs, in, st) == Layer_feed_loop(L, Ofs, in, st, Layer_output_size(L))

\* Network::do_feed_forward<I>(in), I counted from 1
RECURSIVE do_feed_forward(_, _, _, _)
do_feed_forward(I, in, st, ptrs) ==
  LET r == Layer_feed(layers[I], accum_state_ofs(I, layers), in, st)
  IN  IF I = Len(layers)
      THEN [out |-> r.out, state |-> r.state, ptrs |-> Append(ptrs, r.ptrs)]
      ELSE do_feed_forward(I + 1, r.out, r.state, Append(ptrs, r.ptrs))

\* the neuron types under study
Activations == {"identity", "rtlu", "sgn_bipolar", "sgn_unipolar", "varsig_bipolar"}
NeuronKinds ==
  { [biased |-> TRUE, activation |-> "identity", feedback |-> "none"],
    [biased |-> FALSE, activation |-> "rtlu", feedback |-> "none"],
    [biased |-> TRUE, activation |-> "sgn_bipolar", feedback |-> "direct"],
    [biased |-> FALSE, activation |-> "sgn_unipolar", feedback |-> "direct"],
    [biased |-> TRUE, activation |-> "varsig_bipolar", feedback |-> "direct"] }
Neurons ==
  { [input_size |-> i, biased |-> k.biased, activation |-> k.activation,
     feedback |-> k.feedback] : i \in 1..MaxWidth, k \in NeuronKinds }
LayerTypes == [neuron : Neurons, size : 1..MaxWidth]
\* the lists of layers; a sigmoid term is not fed to a further layer
NetworkTypes ==
  { C \in UNION { [1..d -> LayerTypes] : d \in Depths } :
      \A i \in 1..(Len(C) - 1) : C[i].neuron.activation # "varsig_bipolar" }

\* a type Network<T, L...> that is about to be instantiated
InitNet ==
  /\ StepIdle
  /\ PopIdle
  /\ GenIdle
  /\ RunIdle
  /\ CtorIdle
  /\ layers \in NetworkTypes
  /\ npc = "type"
  /\ state_ = <<>>
  /\ net_in = <<>>
  /\ net_out = <<>>
  /\ feeds = 0
  /\ prev_state = <<>>
  /\ prev_out = <<>>
  /\ fed_at = <<>>

NetFrame == UNCHANGED <<stepVars, genVars, runVars, ctorVars>>

\* the static_assert on match_interface, then Network(val); the input the
\* network will be evaluated on is fixed here
Instantiate ==
  /\ npc = "type"
  /\ IF ~match_interface(layers)
     THEN /\ npc' = "rejected"
          /\ UNCHANGED <<state_, net_in>>
     ELSE /\ npc' = "accepted"
          /\ \E val \in Vals : state_' = [k \in 0..(Network_state_size - 1) |-> val]
          /\ net_in' \in [1..Network_input_size -> Vals]
  /\ UNCHANGED <<layers, net_out, feeds, prev_state, prev_out, fed_at>>
  /\ NetFrame

\* operator()(in): return do_feed_forward<0>(in)
Evaluate ==
  /\ npc = "accepted"
  /\ feeds < MaxFeeds
  /\ LET r == do_feed_forward(1, net_in, state_, <<>>)
     IN  /\ net_out' = r.out
         /\ state_' = r.state
         /\ fed_at' = r.ptrs
  /\ prev_state' = state_
  /\ prev_out' = net_out
  /\ feeds' = feeds + 1
  /\ UNCHANGED <<layers, npc, net_in>>
  /\ NetFrame

NextNet ==
  \/ Instantiate
  \/ Evaluate

\* ====================================================================
\* Specifications
\* ====================================================================
Init == InitStep /\ GenIdle /\ RunIdle /\ CtorIdle /\ NetIdle
Next == NextStep
Spec == Init /\ [][Next]_vars

SpecGen == InitGen /\ [][NextGen]_vars

SpecRun == InitRun /\ [][NextRun]_vars

\* run is one thread executing its statements one after the other: a
\* statement that can be executed is executed
SpecCtor == InitCtor /\ [][NextCtor]_vars
SpecNet == InitNet /\ [][NextNet]_vars
SpecRunLive == InitRun /\ [][NextRun]_vars /\ WF_vars(NextRun)

\* ====================================================================
\* Claims about simulate_timestep / resolve_grazing_and_attacks (Spec)
\* ====================================================================
InAttackerList(a) == \E k \in 1..Len(attacking_inds_) : attacking_inds_[k] = a
FightLoopDone == pc = "fight" /\ idx > Len(attacking_inds_)

\* C1: every pair the fight loop resolves is an attacker together with the
\* victim this attacker selected (a handling agent on its cell at selection
\* time); an attacker that selected nobody fights nobody.
C1_FightsAreSelectedPairs ==
  \A k \in 1..Len(resolved) :
    resolved[k].fought => selected[resolved[k].att] = resolved[k].vic

\* C2: the fights are resolved in the order of the shuffled conflicts_v:
\* when the fight loop ends (every attacker having selected a victim), the
\* sequence of pairs it went through is conflicts_v.
C2_FightsFollowShuffle ==
  (FightLoopDone /\ Len(attacked_inds) = Len(attacking_inds_)) =>
    [k \in 1..Len(resolved) |-> <<resolved[k].att, resolved[k].vic>>] = conflicts_v

\* C3: right after attacking_inds_ is built, an agent is in it if and only
\* if it is neither handling nor foraging and a handling agent stands on its
\* cell at that moment.
C3_AttackerIffHandlerOnCell ==
  (pc = "select" /\ idx = 1) =>
    \A a \in Agents :
      InAttackerList(a) <=>
        (~handling[a] /\ ~foraging[a]
           /\ \E h \in Agents : handling[h] /\ pos[h] = pos[a])

\* C4: right after a fight, if the attacker won it is handling with the timer
\* the victim had (>= 0) and the victim is not handling and within flee_radius
\* of where it stood; if the attacker lost, it is the attacker that stands
\* within flee_radius of where it stood and the victim keeps state and timer.
C4_FightOutcome ==
  Len(lastFight) = 1 =>
    LET f == lastFight[1] IN
    IF f.won
    THEN /\ handling[f.att]
         /\ handle_time[f.att] = f.vicTime
         /\ f.vicTime >= 0
         /\ ~handling[f.vic]
         /\ TorDist(pos[f.vic], f.vicPos) <= flee_radius
    ELSE /\ TorDist(pos[f.att], f.attPos) <= flee_radius
         /\ handling[f.vic]
         /\ handle_time[f.vic] = f.vicTime
         /\ pos[f.vic] = f.vicPos

\* C4 witness: an attacker has just won a fight and its victim has fled to
\* another cell
C4_Witness ==
  /\ Len(lastFight) = 1
  /\ lastFight[1].won
  /\ pos[lastFight[1].vic] # lastFight[1].vicPos
  /\ handle_time[lastFight[1].att] >= 1

\* C5: an agent picks only when it is not handling, is foraging and its cell
\* holds an item; a pick makes it handling and lowers the cell's count by
\* one; the picks made at a cell never exceed the items it held when the
\* foraging phase began.
C5_PickRules ==
  /\ Len(lastPick) = 1 =>
        LET p == lastPick[1] IN
        /\ ~p.wasHandling
        /\ p.wasForaging
        /\ p.itemsBefore >= 1
        /\ handling[p.agent]
        /\ items[p.cell] = p.itemsBefore - 1
  /\ pc = "forage" =>
        \A c \in Cells : /\ picks[c] <= itemsAtForage[c]
                          /\ items[c] = itemsAtForage[c] - picks[c]

\* C5 witness: a cell's last item has been picked and a later forager on the
\* same cell went without
C5_Witness ==
  /\ pc = "forage"
  /\ \E c \in Cells :
       /\ picks[c] >= 1
       /\ picks[c] = itemsAtForage[c]
       /\ \E a \in Agents : a < idx /\ IsForager(a) /\ pos[a] = c

\* C6: every cell's item count stays within [0, floor(capacity * max_item_cap)]
C6_ItemsWithinCap ==
  \A c \in Cells : 0 <= items[c] /\ items[c] <= ItemCap(c)

\* C6 witness: the growth draw succeeded on a cell that was already full, and
\* the cell is still at its cap
C6_Witness ==
  /\ pc = "do_handle"
  /\ \E c \in grew : /\ ItemCap(c) >= 1
                     /\ itemsAtForage[c] = ItemCap(c)
                     /\ items[c] = ItemCap(c)

\* ====================================================================
\* Claims about detail::create_new_generation (SpecGen)
\* ====================================================================
\* C7: in every step of create_new_generation that does not end it, the live
\* agent array and the live networks keep their values; the step that ends it
\* is taken when every staging slot has been written and makes the live
\* arrays equal to the staging arrays as they stood.
C7_LiveUntouchedUntilSwap ==
  [][ /\ (gphase' # "done") => (LivePop' = LivePop /\ ann' = ann)
      /\ (gphase # "done" /\ gphase' = "done") =>
           (written = Agents /\ LivePop' = tmp_pop /\ ann' = tmp_ann) ]_vars

\* C7 witness: the swap has happened and installed an offspring of another
\* slot's agent, with a mutated network
C7_Witness ==
  /\ gphase = "done"
  /\ \E i \in Agents : /\ ancestor[i] \in Agents \ {i}
                       /\ ann[i] # tmp_ann[ancestor[i]]

\* C8: between the copy of a slot and the mutation, the slot's offspring
\* stands on the grid within sprout_radius (per axis, toroidal) of some agent
\* a of the previous generation and its staging network equals a's state
\* element for element, so both give the same output on every input.
C8_OffspringCopiesAncestor ==
  gphase = "copy" =>
    \A i \in written :
      /\ tmp_pop[i].pos \in Cells
      /\ \E a \in Agents :
           /\ AxisDist(tmp_pop[i].pos[1], pos[a][1]) <= sprout_radius
           /\ AxisDist(tmp_pop[i].pos[2], pos[a][2]) <= sprout_radius
           /\ Len(tmp_ann[i]) = Len(ann[a])
           /\ \A k \in 1..Len(ann[a]) : tmp_ann[i][k] = ann[a][k]
           /\ \A in \in [1..input_size -> 0..1] : feed(in, tmp_ann[i]) = feed(in, ann[a])

\* C8 witness: every slot is copied, and one offspring of another slot's
\* agent was placed across the edge of the grid
C8_Witness ==
  /\ gphase = "copy"
  /\ written = Agents
  /\ \E i \in Agents :
       LET a == tmp_pop[i].ancestor IN
       /\ a \in Agents \ {i}
       /\ pos[a][2] = 0
       /\ tmp_pop[i].pos[2] = Dim - 1

\* ====================================================================
\* Claims about Simulation::run (SpecRun)
\* ====================================================================
Indices == 1..Len(trace)
IsEv(k, name) == trace[k].e = name
SameGen(j, k) == trace[j].ph = trace[k].ph /\ trace[j].g = trace[k].g
\* position of a generation in the run: the burn-in generations come first
GenOrdinal(k) == IF trace[k].ph = "burn" THEN trace[k].g ELSE Gburnin + trace[k].g
Before(k, name) == \E j \in 1..(k - 1) : IsEv(j, name) /\ SameGen(j, k)
Work == {"timestep", "assess", "copy", "mutate", "swap"}
\* the timesteps of the generation of entry k that precede it
TimestepsBefore(k) == Cardinality({j \in 1..(k - 1) : IsEv(j, "timestep") /\ SameGen(j, k)})
\* the timesteps the generation of entry k is to run
TimestepsDue(k) == IF trace[k].ph = "main" /\ trace[k].g >= Gfix THEN Tfix ELSE T

\* C9: within a generation nothing of assessment, creation, mutation or swap
\* precedes a timestep, and the assessment comes when all the timesteps of
\* the generation have run; assessment precedes the copy, the copy the mutation,
\* the mutation the swap; the copy uses a selection distribution rebuilt from
\* the fitness of the population it copies from; and nothing of a later
\* generation happens before the swap of the generation before it.
C9_PhaseOrder ==
  \A k \in Indices :
    /\ IsEv(k, "timestep") =>
         ~(Before(k, "assess") \/ Before(k, "copy") \/ Before(k, "mutate")
             \/ Before(k, "swap"))
    /\ IsEv(k, "assess") =>
         /\ ~(Before(k, "copy") \/ Before(k, "mutate") \/ Before(k, "swap"))
         /\ TimestepsBefore(k) = TimestepsDue(k)
    /\ IsEv(k, "copy") => (Before(k, "assess") /\ trace[k].fresh /\ ~Before(k, "swap"))
    /\ IsEv(k, "mutate") => (Before(k, "copy") /\ ~Before(k, "swap"))
    /\ IsEv(k, "swap") => Before(k, "mutate")
    /\ (trace[k].e \in Work /\ GenOrdinal(k) > 0) =>
         \E j \in 1..(k - 1) : IsEv(j, "swap") /\ GenOrdinal(j) = GenOrdinal(k) - 1

\* C9 witness: a run with burn-in and two main generations, each with
\* timesteps, has swapped its last generation
C9_Witness ==
  /\ Gburnin >= 1
  /\ G >= 2
  /\ T >= 1
  /\ Len(trace) >= 1
  /\ IsEv(Len(trace), "swap")
  /\ trace[Len(trace)].ph = "main"
  /\ trace[Len(trace)].g = G - 1
  /\ \E k \in Indices : IsEv(k, "timestep") /\ SameGen(k, Len(trace))

Count(name, g) ==
  Cardinality({k \in Indices : IsEv(k, name) /\ trace[k].ph = "main" /\ trace[k].g = g})

\* C10: with an observer that never vetoes, INITIALIZED is the first entry
\* and occurs once; what follows a timestep is its tick, and a tick follows
\* nothing else; a main generation has at most one NEW_GENERATION, before all
\* its timesteps, and at most one GENERATION, after its assessment and before
\* its copy, which it precedes; the burn-in has neither; FINISHED occurs only
\* as the last entry of a run that returned true, and such a run has sent
\* exactly one NEW_GENERATION and one GENERATION for every g in 0..G-1.
C10_NotificationOrder ==
  observer = "never_vetoes" =>
    /\ rpc # "start" => (Len(trace) >= 1 /\ IsEv(1, "INITIALIZED"))
    /\ rpc # "returned_false"
    /\ \A k \in Indices :
         /\ IsEv(k, "INITIALIZED") => k = 1
         /\ (IsEv(k, "timestep") /\ k < Len(trace)) =>
              trace[k + 1].e = (IF trace[k].ph = "burn" THEN "WATCHDOG" ELSE "POST_TIMESTEP")
         /\ (IsEv(k, "timestep") /\ k = Len(trace)) => rpc \in {"burn_watchdog", "main_post"}
         /\ trace[k].e \in {"WATCHDOG", "POST_TIMESTEP"} =>
              (k > 1 /\ IsEv(k - 1, "timestep"))
         /\ trace[k].e \in {"NEW_GENERATION", "GENERATION"} =>
              (trace[k].ph = "main" /\ trace[k].g \in 0..(G - 1)
                 /\ Count(trace[k].e, trace[k].g) = 1)
         /\ (IsEv(k, "timestep") /\ trace[k].ph = "main") => Before(k, "NEW_GENERATION")
         /\ IsEv(k, "NEW_GENERATION") =>
              \A j \in 1..(k - 1) : trace[j].e \in Work => ~SameGen(j, k)
         /\ IsEv(k, "GENERATION") => (Before(k, "assess") /\ ~Before(k, "copy"))
         /\ (IsEv(k, "copy") /\ trace[k].ph = "main") => Before(k, "GENERATION")
         /\ IsEv(k, "FINISHED") => (k = Len(trace) /\ rpc = "returned_true")
    /\ rpc = "returned_true" =>
         /\ IsEv(Len(trace), "FINISHED")
         /\ \A g \in 0..(G - 1) : Count("NEW_GENERATION", g) = 1 /\ Count("GENERATION", g) = 1

\* C10 witness: a run with burn-in, two main generations and timesteps in
\* both phases has returned true under an observer that never vetoes
C10_Witness ==
  /\ observer = "never_vetoes"
  /\ rpc = "returned_true"
  /\ Gburnin >= 1
  /\ G >= 2
  /\ \E k \in Indices : IsEv(k, "WATCHDOG")
  /\ \E k \in Indices : IsEv(k, "POST_TIMESTEP") /\ trace[k].g = G - 1

NotificationNames == {"INITIALIZED", "WATCHDOG", "NEW_GENERATION", "POST_TIMESTEP",
                      "GENERATION", "FINISHED"}

\* C11: once notify has returned false the run has returned false, the
\* notification that was vetoed is the last entry of the trace (no timestep,
\* assessment, analysis, creation, swap or notification follows it) and no
\* FINISHED precedes it.
C11_VetoStopsRun ==
  vetoed =>
    /\ rpc = "returned_false"
    /\ Len(trace) >= 1
    /\ trace[Len(trace)].e \in NotificationNames
    /\ \A k \in 1..(Len(trace) - 1) : ~IsEv(k, "FINISHED")

\* C11 witness: the observer vetoed the GENERATION notification of a
\* generation that had timesteps
C11_Witness ==
  /\ vetoed
  /\ Len(trace) >= 1
  /\ IsEv(Len(trace), "GENERATION")
  /\ \E k \in Indices : IsEv(k, "timestep") /\ SameGen(k, Len(trace))

CountIn(name, ph, g) ==
  Cardinality({k \in Indices : IsEv(k, name) /\ trace[k].ph = ph /\ trace[k].g = g})
\* the run has simulated exactly the configured generations and timesteps
RunComplete ==
  /\ \A k \in Indices :
       trace[k].e \in Work =>
         \/ (trace[k].ph = "burn" /\ trace[k].g \in 0..(Gburnin - 1))
         \/ (trace[k].ph = "main" /\ trace[k].g \in 0..(G - 1))
  /\ \A b \in 0..(Gburnin - 1) :
       CountIn("timestep", "burn", b) = T /\ CountIn("swap", "burn", b) = 1
  /\ \A g \in 0..(G - 1) :
       /\ CountIn("timestep", "main", g) = (IF g >= Gfix THEN Tfix ELSE T)
       /\ CountIn("swap", "main", g) = 1

LayersCurrent ==
  /\ foragers_count = RoleCount("foragers")
  /\ klepts_count = RoleCount("klepts")
  /\ handlers_count = RoleCount("handlers")
  /\ handlers = Convolve(RoleCount("handlers"))

\* C13: at the two points of a timestep where occupancy layers are read (the
\* networks' move, and the attacker test of resolve_grazing_and_attacks) the
\* layers are those of the agents' current positions and roles.
C13_LayersCurrentWhenRead ==
  (pc = "move" \/ (pc = "forage" /\ idx > NAgents)) => LayersCurrent

CellAt(k) == <<(k - 1) \div Dim, (k - 1) % Dim>>
RECURSIVE LayerSumUpTo(_, _)
LayerSumUpTo(layer, k) ==
  IF k = 0 THEN 0 ELSE layer[CellAt(k)] + LayerSumUpTo(layer, k - 1)
LayerSum(layer) == LayerSumUpTo(layer, Dim * Dim)
InRole(role) == Cardinality({a \in Agents : RoleOf(a) = role})

\* C14: after construction and at the end of a timestep the raw count layer
\* of each role sums, over all cells, to the number of agents in that role.
C14_CountsSumToRoles ==
  pc \in {"growth", "done"} =>
    /\ LayerSum(foragers_count) = InRole("foragers")
    /\ LayerSum(klepts_count) = InRole("klepts")
    /\ LayerSum(handlers_count) = InRole("handlers")

\* C14 witness: a timestep has ended with a forager and two handlers, one of
\* them having taken up handling in this timestep
C14_Witness ==
  /\ pc = "done"
  /\ InRole("foragers") >= 1
  /\ InRole("handlers") >= 2
  /\ \E a \in Agents : handling[a] /\ handle_time[a] = HandlingTime

\* ====================================================================
\* Further claims about detail::create_new_generation (SpecGen)
\* ====================================================================
\* C15: the live agent array, the staging agent array, the fitness array and
\* the live and staging network collections all have N elements, before,
\* during and after create_new_generation.
C15_SizesAreN ==
  /\ DOMAIN LivePop = Agents
  /\ DOMAIN pos = Agents
  /\ DOMAIN tmp_pop = Agents
  /\ DOMAIN fitness = Agents
  /\ DOMAIN ann = Agents
  /\ DOMAIN tmp_ann = Agents

\* C15 witness: after the swap the staging arrays hold the whole previous
\* generation and the live arrays the new one
C15_Witness ==
  /\ gphase = "done"
  /\ \A a \in Agents : tmp_pop[a].ancestor = a /\ tmp_pop[a].pos = GenPos(a)
                       /\ tmp_ann[a] = GenNet(a)
  /\ \E a \in Agents : ann[a] # tmp_ann[a]

\* C20: the generation produced is the one the engine's stream gives in slot
\* order.  The k-th value drawn from the engine went to slot reng[k]; an
\* execution in slot order gives it to slot k; so when the copy phase is over
\* slot k holds what slot reng[k] holds, position, ancestor and network.
C20_SameSeedSameGeneration ==
  (gphase = "copy" /\ written = Agents) =>
    \A k \in Agents : /\ tmp_pop[k] = tmp_pop[reng[k]]
                      /\ tmp_ann[k] = tmp_ann[reng[k]]

\* ====================================================================
\* Claims about Simulation::Simulation (SpecCtor)
\* ====================================================================
TimestepSimulated == \E k \in 1..Len(trace) : trace[k].e = "timestep"
ArchiveMismatch ==
  archive.present /\ (archive.un # ann_N \/ archive.usize # type_size)

\* C16: a construction does not succeed when the side of the landscape is
\* below 32, when the image's width or height differs from the side, or when
\* the archive's count or state size differs from N or type_size; after a
\* failed construction nothing has run, no timestep is simulated; and a
\* construction that failed on the archive left every live network as built.
C16_ConstructionFails ==
  /\ cpc = "constructed" =>
       /\ dim >= MinDim
       /\ image.width = dim /\ image.height = dim
       /\ ~ArchiveMismatch
  /\ cpc # "constructed" => rpc = "start" /\ ~TimestepSimulated
  /\ (cpc = "failed" /\ ArchiveMismatch) => ann = [a \in Agents |-> StaleNet]

\* C16 witness: the landscape was built and the constructor failed on an
\* archive of N individuals whose state size is not type_size
C16_Witness ==
  /\ cpc = "failed"
  /\ dim >= MinDim /\ image.width = dim /\ image.height = dim
  /\ items # ZeroLayer
  /\ archive.present /\ archive.un = ann_N /\ archive.usize # type_size
  /\ ArchiveNet(1) # ann[1]

\* ====================================================================
\* Claims about ann::Network (SpecNet)
\* ====================================================================
\* the neurons of the network: layer I counted from 1, neuron J from 0
NeuronIds == {id \in (1..Len(layers)) \X (0..(MaxWidth - 1)) : id[2] < layers[id[1]].size}
NeuronOf(id) == layers[id[1]].neuron
Slice(id) == get_neuron(id[1], id[2])..(get_neuron(id[1], id[2]) + Neuron_state_size(NeuronOf(id)) - 1)
\* the sum of the state sizes of the layers before layer I
RECURSIVE StateSizeBefore(_)
StateSizeBefore(I) ==
  IF I = 1 THEN 0
  ELSE StateSizeBefore(I - 1) + layers[I - 1].size * Neuron_state_size(layers[I - 1].neuron)
\* one element per cell of every neuron's state
AllNeuronCells ==
  UNION { {<<id, k>> : k \in 1..Neuron_state_size(NeuronOf(id))} : id \in NeuronIds }
\* the four regions of a neuron's state, from its start
WeightRegion(n) == 0..(input_weights(n) - 1)
ActivationRegion(n) == activation_begin(n)..(activation_begin(n) + activation_state(n) - 1)
FeedbackRegion(n) == feedback_begin(n)..(feedback_begin(n) + feedback_state(n) - 1)
ScratchRegion(n) == feedback_scratch_begin(n)..(feedback_scratch_begin(n) + feedback_scratch(n) - 1)

\* C17: the state slices of the neurons (neuron J of layer I starts at the
\* state sizes of the layers before I plus J neuron state sizes) are pairwise
\* disjoint and tile 0..state_size-1; state_size is the sum of the neurons'
\* state sizes; a neuron's state is its weight, activation, feedback and
\* scratch regions one after the other; and Layer::feed hands every neuron
\* the offset get_neuron returns.  The layout belongs to the type and is
\* stated where the type is instantiated.
C17_SlicesTileState ==
  /\ (npc = "accepted" /\ feeds = 0) =>
       /\ \A id \in NeuronIds :
            get_neuron(id[1], id[2]) =
              StateSizeBefore(id[1]) + id[2] * Neuron_state_size(NeuronOf(id))
       /\ \A a \in NeuronIds : \A b \in NeuronIds :
            a # b => Slice(a) \cap Slice(b) = {}
       /\ UNION {Slice(id) : id \in NeuronIds} = 0..(Network_state_size - 1)
       /\ Network_state_size = Cardinality(AllNeuronCells)
       /\ \A id \in NeuronIds :
            LET n == NeuronOf(id)
            IN  /\ WeightRegion(n) \cup ActivationRegion(n) \cup FeedbackRegion(n)
                     \cup ScratchRegion(n) = 0..(Neuron_state_size(n) - 1)
                /\ Neuron_state_size(n) =
                     Cardinality(WeightRegion(n)) + Cardinality(ActivationRegion(n))
                     + Cardinality(FeedbackRegion(n)) + Cardinality(ScratchRegion(n))
  /\ npc = "accepted" => DOMAIN state_ = 0..(Network_state_size - 1)
  /\ feeds >= 1 =>
       \A id \in NeuronIds : fed_at[id[1]][id[2] + 1] = get_neuron(id[1], id[2])

\* C17 witness: an evaluated network of three layers, one of them of two
\* neurons with direct feedback, the last with a neuron of all four regions
C17_Witness ==
  /\ npc = "accepted"
  /\ feeds >= 1
  /\ Len(layers) = 3
  /\ \E I \in 1..2 : layers[I].size >= 2 /\ layers[I].neuron.feedback = "direct"
  /\ layers[3].neuron.activation = "varsig_bipolar"
  /\ layers[3].neuron.feedback = "direct"
  /\ layers[3].size >= 2

\* the cells of state_ that are feedback scratch
ScratchCells ==
  UNION { {get_neuron(id[1], id[2]) + k : k \in ScratchRegion(NeuronOf(id))} : id \in NeuronIds }
AllFeedbackNone == \A I \in 1..Len(layers) : layers[I].neuron.feedback = "none"

\* C18: an evaluation changes no cell of state_ that is not feedback scratch;
\* with feedback none in every neuron it changes no cell at all, and the
\* second of two evaluations on the same input returns what the first did.
C18_FeedWritesScratchOnly ==
  feeds >= 1 =>
    /\ DOMAIN state_ = DOMAIN prev_state
    /\ \A k \in DOMAIN state_ : state_[k] # prev_state[k] => k \in ScratchCells
    /\ AllFeedbackNone => state_ = prev_state
    /\ (AllFeedbackNone /\ feeds >= 2) => net_out = prev_out

\* C18 witness: the second evaluation of a network with direct feedback has
\* changed a scratch cell and returned another output than the first
C18_Witness ==
  /\ feeds = 2
  /\ Len(layers) >= 2
  /\ state_ # prev_state
  /\ net_out # prev_out

\* C19: the type is accepted exactly when every layer's output size is the
\* next layer's input size; a single layer is always accepted; the network's
\* input has the first layer's input size and its output the last layer's
\* neuron count.
C19_AcceptedIffInterfacesMatch ==
  /\ npc = "accepted" =>
       \A i \in 1..(Len(layers) - 1) : layers[i].size = layers[i + 1].neuron.input_size
  /\ npc = "rejected" =>
       \E i \in 1..(Len(layers) - 1) : layers[i].size # layers[i + 1].neuron.input_size
  /\ Len(layers) = 1 => npc # "rejected"
  /\ npc = "accepted" =>
       /\ Network_input_size = layers[1].neuron.input_size
       /\ Network_output_size = layers[Len(layers)].size
       /\ DOMAIN net_in = 1..layers[1].neuron.input_size
  /\ feeds >= 1 => DOMAIN net_out = 1..layers[Len(layers)].size

\* C19 witness: an accepted and evaluated network of three layers whose
\* widths differ from layer to layer
C19_Witness ==
  /\ npc = "accepted"
  /\ feeds >= 1
  /\ Len(layers) = 3
  /\ layers[1].size # layers[2].size
  /\ layers[1].neuron.input_size # layers[3].size

\* ====================================================================
\* Further claims about Simulation::run (SpecRun)
\* ====================================================================
\* C21: a burn-in generation that ends has run its T timesteps, its
\* assessment, its copy and its mutation, as a main generation has; the
\* analysis record is made for main generations only, at most once per
\* generation, after the generation's assessment and before its copy, and
\* every main generation that reaches its copy has it; g_ keeps the value
\* the constructor gave it through the burn-in, and the main generations
\* count from 0.
C21_AnalysisForMainOnly ==
  /\ phase = "burn" => g_ = 0 - 1
  /\ \A k \in Indices :
       /\ trace[k].ph = "burn" => ~IsEv(k, "analysis")
       /\ IsEv(k, "analysis") =>
            /\ trace[k].ph = "main"
            /\ CountIn("analysis", "main", trace[k].g) = 1
            /\ Before(k, "assess")
            /\ ~Before(k, "copy")
       /\ (IsEv(k, "copy") /\ trace[k].ph = "main") => Before(k, "analysis")
       /\ IsEv(k, "swap") =>
            /\ TimestepsBefore(k) = TimestepsDue(k)
            /\ Before(k, "assess") /\ Before(k, "copy") /\ Before(k, "mutate")
       /\ (trace[k].ph = "main" /\ \A j \in 1..(k - 1) : trace[j].ph = "burn") =>
            trace[k].g = 0

\* C21 witness: a finished run whose burn-in generation ran timesteps and
\* was swapped, and whose two main generations each have their record
C21_Witness ==
  /\ rpc = "returned_true"
  /\ Gburnin >= 1
  /\ T >= 1
  /\ G >= 2
  /\ CountIn("timestep", "burn", 0) = T
  /\ CountIn("swap", "burn", 0) = 1
  /\ CountIn("analysis", "main", 0) = 1
  /\ CountIn("analysis", "main", G - 1) = 1

\* C22: a run without an observer is never stopped: it does not return
\* false, and when it has returned it has returned true after simulating
\* every configured burn-in and main generation.
C22_NullObserverRunsAll ==
  observer = "null" =>
    /\ rpc # "returned_false"
    /\ rpc = "returned_true" => RunComplete

\* ====================================================================
\* Further claims about resolve_grazing_and_attacks (Spec)
\* ====================================================================
\* C24: while the pairs are built and resolved, attacked_inds has one entry
\* for every entry of attacking_inds_, and entry i is the victim that the
\* attacker of entry i selected.
C24_OneVictimPerAttacker ==
  ((pc = "select" /\ idx > Len(attacking_inds_)) \/ pc = "fight") =>
    /\ Len(attacked_inds) = Len(attacking_inds_)
    /\ \A i \in 1..Len(attacking_inds_) : attacked_inds[i] = selected[attacking_inds_[i]]

HandlingCount == Cardinality({a \in Agents : handling[a]})
FoughtFor(v) == \E k \in 1..Len(resolved) : resolved[k].fought /\ resolved[k].vic = v

\* C25: every step of the fight loop keeps the number of handling agents
\* and every cell's item count; an agent that loses its handling state in
\* a fight has lost no fight before in this timestep; and a pair is fought
\* only if its victim is handling when its turn comes.
C25_FightsConserveItems ==
  [][ pc = "fight" =>
        /\ HandlingCount' = HandlingCount
        /\ items' = items
        /\ \A v \in Agents : (handling[v] /\ ~handling'[v]) => ~FoughtFor(v)
        /\ (Len(resolved') = Len(resolved) + 1 /\ resolved'[Len(resolved')].fought) =>
             handling[resolved'[Len(resolved')].vic] ]_vars

\* C25 witness: two pairs named the same victim; the first was fought, the
\* second, coming when the victim had lost, was not
C25_Witness ==
  /\ pc = "fight"
  /\ \E j \in 1..Len(resolved) : \E k \in 1..Len(resolved) :
       /\ j < k
       /\ resolved[j].vic = resolved[k].vic
       /\ resolved[j].fought
       /\ ~resolved[k].fought
       /\ resolved[j].att # resolved[k].att
       /\ handling[resolved[j].att]
       /\ ~handling[resolved[k].att]

InVictimList(a) == \E k \in 1..Len(attacked_inds) : attacked_inds[k] = a

\* C26: no agent is in attacking_inds_ and in attacked_inds, and no agent is
\* twice in attacking_inds_; while the victims are selected every listed
\* attacker is not handling and every listed victim is handling.
C26_AttackersAndVictimsDisjoint ==
  /\ \A a \in Agents : ~(InAttackerList(a) /\ InVictimList(a))
  /\ \A j \in 1..Len(attacking_inds_) : \A k \in 1..Len(attacking_inds_) :
       attacking_inds_[j] = attacking_inds_[k] => j = k
  /\ pc = "select" =>
       /\ \A k \in 1..Len(attacking_inds_) : ~handling[attacking_inds_[k]]
       /\ \A k \in 1..Len(attacked_inds) : handling[attacked_inds[k]]

\* C26 witness: the victims have been selected for two attackers, at least
\* one of which had a handling agent on its cell
C26_Witness ==
  /\ pc = "select"
  /\ idx > Len(attacking_inds_)
  /\ Len(attacking_inds_) = 2
  /\ Len(attacked_inds) >= 1

\* ====================================================================
\* Further claims about ann::activation (SpecNet)
\* ====================================================================
\* the neurons of the last layer that apply a hard limit to a value they
\* leave in their scratch cell (feedback direct)
SgnOutputs ==
  {id \in NeuronIds : /\ id[1] = Len(layers)
                      /\ NeuronOf(id).activation \in {"sgn_bipolar", "sgn_unipolar"}
                      /\ NeuronOf(id).feedback = "direct"}
\* the value the activation of neuron id was applied to in the last evaluation
AppliedTo(id) == state_[get_neuron(id[1], id[2]) + feedback_scratch_begin(NeuronOf(id))]

\* C23: the hard limit returns one of the two ends of its range, the upper
\* end for u > 0 and the lower end for u < 0.
C23_SgnIsRisingStep ==
  feeds >= 1 =>
    \A id \in SgnOutputs :
      LET act == NeuronOf(id).activation
          u == AppliedTo(id)
          y == net_out[id[2] + 1]
      IN  /\ y \in {activation_min(act), activation_max(act)}
          /\ u > 0 => y = activation_max(act)
          /\ u < 0 => y = activation_min(act)

====
